---- MODULE Spec2Model ----
(***************************************************************************)
(* A model of package redisdb (src/redisdb.go): the process-wide           *)
(* connection pool gRedisPool, the client operations of RedisDatabase,     *)
(* the cursor loop of GetKeys, the pure function spliceMap and the         *)
(* signal-driven cleanupHook.                                              *)
(*                                                                         *)
(* The pool itself is github.com/gomodule/redigo/redis.Pool (imported at   *)
(* src/redisdb.go:31, not part of this package).  Its Get/put/Close are    *)
(* modelled after the contract of section 4.1 of the specification         *)
(* ("ConnectionPool"), with the fail-fast policy that newPool selects by   *)
(* leaving Wait unset.                                                     *)
(***************************************************************************)
EXTENDS Integers, Sequences, FiniteSets, TLC

(* ----------------------------- bounds --------------------------------- *)

\* number of concurrent callers (goroutines using a handle of GetDatabase)
NumCallers == 2
\* newPool's MaxActive (12000 in the source), scaled down
MaxActive == 1
\* newPool's MaxIdle (80 in the source), scaled down
MaxIdle == 1
\* largest scan cursor a store hands out
MaxCursor == 2
\* total number of connections the callers may borrow in one run
MaxBorrows == 3
\* longest slice handed to spliceMap
MaxLen == 2
\* calls of SetupDatabase in one run, the first included
MaxSetups == 2
\* longest value handed to Set and HMSet
MaxValueLen == 17

Callers == 1..NumCallers
Cursors == 0..MaxCursor
\* a GetKeys call is followed for at most this many round-trips
MaxTrips == MaxCursor + 1
\* enough connection identities for every caller and every idle slot
ConnIds == 1..(NumCallers + MaxIdle + 1)

(* ----------------------------- errors --------------------------------- *)

\* A Go error value: op is the context added by fmt.Errorf in this package
\* ("" when the error is passed through unwrapped), cause the text of the
\* underlying error ("" when the message carries none).
NoErr == [op |-> "", cause |-> ""]
RawErr(e) == [op |-> "", cause |-> e]
Errorf(ctx, e) == [op |-> ctx, cause |-> e]

\* errors of the transport / the pool
ErrIO == "EOF"
ErrNil == "redigo: nil returned"
ErrServer == "ERR"
ErrPoolClosed == "redigo: get on closed pool"
ErrPoolExhausted == "redigo: connection pool exhausted"

(* ----------------------------- values --------------------------------- *)

\* A Go slice of strings: nil is distinct from the empty slice.
NilSlice == [isNil |-> TRUE, elems |-> <<>>]
Slice(s) == [isNil |-> FALSE, elems |-> s]
\* A Go map[string]string: nil is distinct from the empty map.
EmptyMap == [x \in {} |-> ""]
NilMap == [isNil |-> TRUE, m |-> EmptyMap]
Map(f) == [isNil |-> FALSE, m |-> f]

FieldNames == {"a", "b"}
Values == {"1", "2"}

\* the slice that append builds from nil: still nil while nothing was appended
Appended(s) == IF s = <<>> THEN NilSlice ELSE Slice(s)

RECURSIVE SeqsUpTo(_, _)
SeqsUpTo(S, n) ==
    IF n = 0 THEN {<<>>}
    ELSE LET shorter == SeqsUpTo(S, n - 1)
         IN  shorter \cup {Append(s, x) : s \in {t \in shorter : Len(t) = n - 1}, x \in S}

(* --------------------------- spliceMap -------------------------------- *)

\* mutant: the loop keeps the value already stored for a key
RECURSIVE SpliceLoop_FirstWins(_, _, _, _)
SpliceLoop_FirstWins(keys, values, i, result) ==
    IF i > Len(keys) THEN result
    ELSE SpliceLoop_FirstWins(keys, values, i + 1,
                    [x \in (DOMAIN result) \cup {keys[i]} |->
                        IF x \in DOMAIN result THEN result[x] ELSE values[i]])

\* the loop of lines 150-153: result[keys[i]] = values[i] for i = 0 .. lenKeys-1
RECURSIVE SpliceLoop(_, _, _, _)
SpliceLoop(keys, values, i, result) ==
    IF i > Len(keys) THEN result
    ELSE SpliceLoop(keys, values, i + 1,
                    [x \in (DOMAIN result) \cup {keys[i]} |->
                        IF x = keys[i] THEN values[i] ELSE result[x]])

\* mutant: the shape errors are returned whatever the upstream error is
spliceMap_ShapeFirst(keys, values, err) ==
    IF keys.isNil \/ values.isNil
    THEN [val |-> NilMap, err |-> RawErr("splice: one or both slices are nil")]
    ELSE IF Len(keys.elems) # Len(values.elems)
    THEN [val |-> NilMap, err |-> RawErr("splice: lengths are different")]
    ELSE [val |-> Map(SpliceLoop(keys.elems, values.elems, 1, EmptyMap)), err |-> err]

\* mutant: the nil test joins its two halves with "and"
spliceMap_AndNil(keys, values, err) ==
    IF keys.isNil /\ values.isNil
    THEN IF err = NoErr
         THEN [val |-> NilMap, err |-> RawErr("splice: one or both slices are nil")]
         ELSE [val |-> NilMap, err |-> err]
    ELSE IF Len(keys.elems) # Len(values.elems)
    THEN IF err = NoErr
         THEN [val |-> NilMap, err |-> RawErr("splice: lengths are different")]
         ELSE [val |-> NilMap, err |-> err]
    ELSE [val |-> Map(SpliceLoop(keys.elems, values.elems, 1, EmptyMap)), err |-> err]

spliceMap(keys, values, err) ==
    IF keys.isNil \/ values.isNil
    THEN IF err = NoErr
         THEN [val |-> NilMap, err |-> RawErr("splice: one or both slices are nil")]
         ELSE [val |-> NilMap, err |-> err]
    ELSE IF Len(keys.elems) # Len(values.elems)
    THEN IF err = NoErr
         THEN [val |-> NilMap, err |-> RawErr("splice: lengths are different")]
         ELSE [val |-> NilMap, err |-> err]
    ELSE [val |-> Map(SpliceLoop(keys.elems, values.elems, 1, EmptyMap)), err |-> err]

(* ------------------------------ pool ---------------------------------- *)

\* mutant: the pool is configured without an active limit (0 is "no limit")
newPool_NoLimit ==
    [MaxIdle |-> MaxIdle, MaxActive |-> 0,
     closed |-> FALSE, active |-> 0, idle |-> <<>>]

\* the pool configured by newPool: no connection is opened eagerly
newPool ==
    [MaxIdle |-> MaxIdle, MaxActive |-> MaxActive,
     closed |-> FALSE, active |-> 0, idle |-> <<>>]

\* Pool.Get up to the point where it dials: an idle connection if there is
\* one, else the "closed" error, else the "exhausted" error when the active
\* limit is reached, else the slot of a new connection (active is counted
\* before the dial).
PoolGet(p) ==
    IF p.idle # <<>>
    THEN [pool |-> [p EXCEPT !.idle = Tail(p.idle)], conn |-> Head(p.idle),
          err |-> "", dial |-> FALSE]
    ELSE IF p.closed
    THEN [pool |-> p, conn |-> 0, err |-> ErrPoolClosed, dial |-> FALSE]
    ELSE IF p.MaxActive > 0 /\ p.active >= p.MaxActive
    THEN [pool |-> p, conn |-> 0, err |-> ErrPoolExhausted, dial |-> FALSE]
    ELSE [pool |-> [p EXCEPT !.active = p.active + 1], conn |-> 0,
          err |-> "", dial |-> TRUE]

\* Pool.put, called by Close of a borrowed connection: back to the front of
\* the idle list unless the pool is closed or the connection is broken; the
\* connection at the back is discarded when the idle list is over MaxIdle.
PoolPut(p, c, forceClose) ==
    IF ~p.closed /\ ~forceClose
    THEN LET pushed == <<c>> \o p.idle
         IN  IF Len(pushed) > p.MaxIdle
             THEN [p EXCEPT !.idle = SubSeq(pushed, 1, Len(pushed) - 1),
                            !.active = p.active - 1]
             ELSE [p EXCEPT !.idle = pushed]
    ELSE [p EXCEPT !.active = p.active - 1]

\* Pool.Close: idempotent; the idle connections are closed, the borrowed
\* ones are closed when they are put back.
PoolClose(p) ==
    IF p.closed THEN p
    ELSE [p EXCEPT !.closed = TRUE, !.active = p.active - Len(p.idle), !.idle = <<>>]

(* ------------------------------ store --------------------------------- *)

\* The reply of conn.Do as this package sees it: err is the error ("" for
\* none), isNil a nil reply, n the number of elements of an array reply.
DoReply(err, isNil, n) == [err |-> err, isNil |-> isNil, n |-> n]

\* the replies a live connection can give to a single-reply command
DoReplies ==
    {DoReply("", FALSE, 0), DoReply("", TRUE, 0), DoReply(ErrServer, FALSE, 0),
     DoReply(ErrIO, FALSE, 0)}
\* ... and to HMGET, whose reply is an array
ArrayReplies ==
    {DoReply("", FALSE, n) : n \in 0..MaxLen}
        \cup {DoReply("", TRUE, 0), DoReply(ErrServer, FALSE, 0), DoReply(ErrIO, FALSE, 0)}

\* A reply to SCAN: kind "ok" is a two-element array (cursor, batch), where
\* cur = -1 stands for a first element redis.Int cannot decode and
\* batch.ok = FALSE for a second element redis.Strings cannot decode;
\* "short" is an array of fewer than two elements; "err" is an error
\* reply (or nil) on a healthy connection; "eof" a transport failure.
Batches == {<<>>, <<"k1">>, <<"k1", "k2">>}
ScanOk(cur, okBatch, keys) ==
    [kind |-> "ok", cur |-> cur, batch |-> [ok |-> okBatch, keys |-> keys]]
ScanFail(kind) == [kind |-> kind, cur |-> 0, batch |-> [ok |-> FALSE, keys |-> <<>>]]
WellFormedScans == {ScanOk(c, TRUE, b) : c \in Cursors, b \in Batches}
ScanReplies ==
    WellFormedScans
        \cup {ScanOk(-1, TRUE, <<"k1">>), ScanOk(1, FALSE, <<>>), ScanOk(0, FALSE, <<>>)}
        \cup {ScanFail("eof"), ScanFail("err"), ScanFail("short")}

\* A store: the outcomes a dial can have (TRUE: connected), and the replies
\* it can give to a SCAN request for each cursor.
\*
\* FlakyStore walks the cursors 0 -> 1 -> ... -> MaxCursor -> 0 with one key
\* per batch, and can at every request also fail, answer with a cursor that
\* cannot be decoded, or answer with a short array; its dials can fail.
FlakyStore ==
    [dial |-> {TRUE, FALSE},
     scan |-> [c \in Cursors |->
                  {ScanOk((c + 1) % (MaxCursor + 1), TRUE, <<"k1">>), ScanOk(-1, TRUE, <<"k1">>),
                   ScanFail("eof"), ScanFail("err"), ScanFail("short")}]]

\* The deterministic stores: one reply per cursor, any reply; the store
\* either accepts every dial or refuses every dial.
StorePrograms ==
    {[dial |-> {ok}, scan |-> [c \in Cursors |-> {f[c]}]] :
        ok \in BOOLEAN, f \in [Cursors -> ScanReplies]}

(* ------------------------------ state --------------------------------- *)

VARIABLES
    status,      \* the process: "running", "exited" (os.Exit(0)), "panicked"
    pools,       \* the pools created so far, by address (1, 2, ...)
    gRedisPool,  \* the global: address of the current pool
    hooks,       \* the goroutines started by cleanupHook: [pc, c]
    store,       \* the remote store
    pc,          \* per caller: "idle", "dial", "do", "ret"
    fr,          \* per caller: the locals of the running operation
    borrows,     \* connections handed to operations so far
    releases,    \* connections put back by operations so far
    sm           \* a direct call of a pure function: arguments and result

vars == <<status, pools, gRedisPool, hooks, store, pc, fr, borrows, releases, sm>>

\* the locals of an operation: the handle d, the arguments, the borrowed
\* connection (conn = 0 with cerr # "" is the error connection that Pool.Get
\* returns when it cannot hand out a connection), whether the deferred
\* conn.Close() is registered, GetKeys' iter and keys, the cursors sent so
\* far, and the values being returned.
IdleFrame ==
    [op |-> "", d |-> 0, fields |-> <<>>, conn |-> 0, cerr |-> "", broken |-> FALSE,
     deferred |-> FALSE, iter |-> 0, keys |-> <<>>, sent |-> <<>>,
     val |-> NilSlice, err |-> NoErr, panic |-> FALSE]

IdleSplice == [keys |-> NilSlice, values |-> NilSlice, err |-> NoErr,
               out |-> [val |-> NilMap, err |-> NoErr], done |-> FALSE]

\* cleanupHook: the channel c (buffer 1), registered for the signals, and
\* the goroutine waiting on it
cleanupHook == [pc |-> "recv", c |-> <<>>]

\* GetDatabase: a handle bound to the pool the global names right now
GetDatabase == [redisPool |-> gRedisPool]

\* the state SetupDatabase leaves behind: one pool, one hook
Init ==
    /\ status = "running"
    /\ pools = <<newPool>>
    /\ gRedisPool = 1
    /\ hooks = <<cleanupHook>>
    /\ store = FlakyStore
    /\ pc = [p \in Callers |-> "idle"]
    /\ fr = [p \in Callers |-> IdleFrame]
    /\ borrows = 0
    /\ releases = 0
    /\ sm = IdleSplice

\* the connections that are open: borrowed by a caller or idle in a pool
OpenConns ==
    {fr[p].conn : p \in Callers} \cup
    UNION {{pools[a].idle[i] : i \in 1..Len(pools[a].idle)} : a \in 1..Len(pools)}
NewConn == CHOOSE c \in ConnIds : c \notin OpenConns /\ \A x \in ConnIds : x < c => x \in OpenConns

(* ------------------------- client operations --------------------------- *)

\* mutant: conn.Close() is called at once instead of deferred, and the
\* operation goes on using the connection it has already put back
Borrow_EarlyClose(p, name, fields) ==
    /\ status = "running"
    /\ pc[p] = "idle"
    /\ borrows < MaxBorrows
    /\ LET d == GetDatabase
           g == PoolGet(pools[d.redisPool])
       IN  /\ pools' = [pools EXCEPT ![d.redisPool] =
                            IF g.conn # 0 THEN PoolPut(g.pool, g.conn, FALSE) ELSE g.pool]
           /\ pc' = [pc EXCEPT ![p] = IF g.dial THEN "dial" ELSE "do"]
           /\ fr' = [fr EXCEPT ![p] = [IdleFrame EXCEPT !.op = name, !.d = d.redisPool,
                                          !.fields = fields, !.conn = g.conn, !.cerr = g.err,
                                          !.deferred = ~g.dial /\ g.conn = 0]]
           /\ borrows' = borrows
    /\ UNCHANGED <<status, gRedisPool, hooks, store, releases, sm>>

\* conn := d.redisPool.Get(); defer conn.Close()  -- the part of Get that
\* runs under the pool's lock.  The dial of a new connection follows in Dial.
Borrow(p, name, fields) ==
    /\ status = "running"
    /\ pc[p] = "idle"
    /\ borrows < MaxBorrows
    /\ LET d == GetDatabase
           g == PoolGet(pools[d.redisPool])
       IN  /\ pools' = [pools EXCEPT ![d.redisPool] = g.pool]
           /\ pc' = [pc EXCEPT ![p] = IF g.dial THEN "dial" ELSE "do"]
           /\ fr' = [fr EXCEPT ![p] = [IdleFrame EXCEPT !.op = name, !.d = d.redisPool,
                                          !.fields = fields, !.conn = g.conn, !.cerr = g.err,
                                          !.deferred = ~g.dial]]
           /\ borrows' = IF g.conn # 0 THEN borrows + 1 ELSE borrows
    /\ UNCHANGED <<status, gRedisPool, hooks, store, releases, sm>>

\* The Dial function of newPool: redis.DialURL, and panic when it fails.
\* A panic that nothing recovers ends the program.
Dial(p) ==
    /\ status = "running"
    /\ pc[p] = "dial"
    /\ \E ok \in store.dial :
          IF ok
          THEN /\ fr' = [fr EXCEPT ![p].conn = NewConn, ![p].deferred = TRUE]
               /\ pc' = [pc EXCEPT ![p] = "do"]
               /\ borrows' = borrows + 1
               /\ UNCHANGED status
          ELSE /\ fr' = [fr EXCEPT ![p].panic = TRUE]
               /\ status' = "panicked"
               /\ UNCHANGED <<pc, borrows>>
    /\ UNCHANGED <<pools, gRedisPool, hooks, store, releases, sm>>

\* the reply helpers redis.String, redis.Bytes, redis.Bool and redis.Int:
\* the error passed in wins, a nil reply is ErrNil, else the value
Scalar(r) ==
    IF r.err # "" THEN [val |-> NilSlice, err |-> r.err]
    ELSE IF r.isNil THEN [val |-> NilSlice, err |-> ErrNil]
    ELSE [val |-> Slice(<<"v">>), err |-> ""]

\* the n elements of an array reply
ReplyElems(n) == [i \in 1..n |-> IF i % 2 = 1 THEN "1" ELSE "2"]

\* redis.Strings: nil with the error, else a slice of the elements
Strings(r) ==
    IF r.err # "" THEN [val |-> NilSlice, err |-> r.err]
    ELSE IF r.isNil THEN [val |-> NilSlice, err |-> ErrNil]
    ELSE [val |-> Slice(ReplyElems(r.n)), err |-> ""]

\* redis.StringMap: nil with the error, else the map of the reply's pairs
StringMap(r) ==
    IF r.err # "" THEN [val |-> NilMap, err |-> r.err]
    ELSE IF r.isNil THEN [val |-> NilMap, err |-> ErrNil]
    ELSE [val |-> Map([x \in {"a"} |-> "1"]), err |-> ""]

\* the value preview in the error of Set and HMSet: a value of more than
\* PreviewLimit bytes is cut to its first PreviewKeep bytes and "..."
PreviewLimit == 15
PreviewKeep == 12
Dots == <<".", ".", ".">>

\* mutant: the cut keeps PreviewLimit bytes before the dots
Preview_KeepLimit(value) ==
    IF Len(value) > PreviewLimit THEN SubSeq(value, 1, PreviewLimit) \o Dots ELSE value

\* v := string(value); if len(v) > 15 { v = v[0:12] + "..." }
Preview(value) ==
    IF Len(value) > PreviewLimit THEN SubSeq(value, 1, PreviewKeep) \o Dots ELSE value

\* the error of a failed Set and of a failed HMSet, with the preview
SetErrorf(value, e) == [op |-> "error setting key", v |-> Preview(value), cause |-> e]
HMSetErrorf(value, e) == [op |-> "error setting key:hashKey", v |-> Preview(value), cause |-> e]

\* mutant: Ping drops the error of its round-trip
PingRet_Swallow(r) == [val |-> NilSlice, err |-> NoErr]

\* what each operation returns for the reply r of its round-trip
PingRet(r) ==
    LET c == Scalar(r)
    IN  IF c.err # "" THEN [val |-> NilSlice, err |-> Errorf("cannot 'PING' db", c.err)]
        ELSE [val |-> NilSlice, err |-> NoErr]

GetRet(r) ==
    LET c == Scalar(r)
    IN  IF c.err # "" THEN [val |-> c.val, err |-> Errorf("error getting key", c.err)]
        ELSE [val |-> c.val, err |-> NoErr]

\* Set and HMSet: the error is kept here without its value preview, which
\* SetErrorf and HMSetErrorf add
SetRet(r) ==
    IF r.err # "" THEN [val |-> NilSlice, err |-> Errorf("error setting key", r.err)]
    ELSE [val |-> NilSlice, err |-> NoErr]

ExistsRet(r) ==
    LET c == Scalar(r)
    IN  IF c.err # "" THEN [val |-> c.val, err |-> Errorf("error checking if key exists", c.err)]
        ELSE [val |-> c.val, err |-> NoErr]

\* mutant: Delete drops the error of its round-trip
DeleteRet_Swallow(r) == [val |-> NilSlice, err |-> NoErr]

\* Delete returns the error of conn.Do as it is
DeleteRet(r) == [val |-> NilSlice, err |-> RawErr(r.err)]

HMGetRet(fields, r) ==
    LET c == Strings(r)
    IN  spliceMap(Slice(fields), c.val, RawErr(c.err))

HMGetKeysRet(r) == [val |-> Strings(r).val, err |-> NoErr]

HMGetAllRet(r) == [val |-> StringMap(r).val, err |-> NoErr]

HMSetRet(r) ==
    IF r.err # "" THEN [val |-> NilSlice, err |-> Errorf("error setting key:hashKey", r.err)]
    ELSE [val |-> NilSlice, err |-> NoErr]

IncrRet(r) ==
    LET c == Scalar(r)
    IN  [val |-> c.val, err |-> RawErr(c.err)]

OpRet(name, fields, r) ==
    CASE name = "Ping" -> PingRet(r)
      [] name = "Get" -> GetRet(r)
      [] name = "Set" -> SetRet(r)
      [] name = "Exists" -> ExistsRet(r)
      [] name = "Delete" -> DeleteRet(r)
      [] name = "HMGet" -> HMGetRet(fields, r)
      [] name = "HMGetKeys" -> HMGetKeysRet(r)
      [] name = "HMGetAll" -> HMGetAllRet(r)
      [] name = "HMSet" -> HMSetRet(r)
      [] name = "Incr" -> IncrRet(r)

\* the entry of each operation
Ping(p) == Borrow(p, "Ping", <<>>)
Get(p) == Borrow(p, "Get", <<>>)
Set(p) == Borrow(p, "Set", <<>>)
Exists(p) == Borrow(p, "Exists", <<>>)
Delete(p) == Borrow(p, "Delete", <<>>)
GetKeys(p) == Borrow(p, "GetKeys", <<>>)
HMGetKeys(p) == Borrow(p, "HMGetKeys", <<>>)
HMGetAll(p) == Borrow(p, "HMGetAll", <<>>)
HMSet(p) == Borrow(p, "HMSet", <<>>)
Incr(p) == Borrow(p, "Incr", <<>>)

\* mutant: the test for an empty field list is missing
HMGet_NoCheck(p) == \E fields \in {<<>>, <<"a">>, <<"a", "b">>} : Borrow(p, "HMGet", fields)

\* HMGet: with no field it returns before it touches the pool
HMGetArgs == {<<>>, <<"a">>, <<"a", "b">>}
HMGet(p) ==
    \E fields \in HMGetArgs :
        IF Len(fields) = 0
        THEN /\ status = "running"
             /\ pc[p] = "idle"
             /\ pc' = [pc EXCEPT ![p] = "ret"]
             /\ fr' = [fr EXCEPT ![p] = [IdleFrame EXCEPT !.op = "HMGet", !.val = NilMap,
                                            !.err = RawErr("redis: at least once field is required")]]
             /\ UNCHANGED <<status, pools, gRedisPool, hooks, store, borrows, releases, sm>>
        ELSE Borrow(p, "HMGet", fields)

\* the replies the operation's connection gives: the error connection
\* answers every command with its error
Replies(f, live) == IF f.cerr # "" THEN {DoReply(f.cerr, FALSE, 0)} ELSE live

\* the round-trip of a single-reply operation and the values it returns
Do(p) ==
    /\ status = "running"
    /\ pc[p] = "do"
    /\ fr[p].op # "GetKeys"
    /\ \E r \in Replies(fr[p], IF fr[p].op = "HMGet" THEN ArrayReplies ELSE DoReplies) :
          LET out == OpRet(fr[p].op, fr[p].fields, r)
          IN  fr' = [fr EXCEPT ![p].val = out.val, ![p].err = out.err,
                               ![p].broken = (r.err = ErrIO)]
    /\ pc' = [pc EXCEPT ![p] = "ret"]
    /\ UNCHANGED <<status, pools, gRedisPool, hooks, store, borrows, releases, sm>>

\* redis.Int(arr[0], nil) and redis.Strings(arr[1], nil) with the error
\* dropped: 0 and nil when the element cannot be decoded
ScanCursor(r) == IF r.cur < 0 THEN 0 ELSE r.cur
ScanBatch(r) == IF r.batch.ok THEN r.batch.keys ELSE <<>>

\* mutant: the loop leaves at cursor 0 before it appends the last batch
ScanStep_BreakFirst(f, r) ==
    LET g == [f EXCEPT !.sent = Append(f.sent, f.iter)]
    IN  IF r.kind \in {"eof", "err"}
        THEN [pc |-> "ret",
              fr |-> [g EXCEPT !.val = Appended(f.keys), !.err = Errorf("error retrieving keys", ""),
                               !.broken = (r.kind = "eof")]]
        ELSE IF r.kind = "short"
        THEN [pc |-> "ret", fr |-> [g EXCEPT !.panic = TRUE]]
        ELSE LET iter == ScanCursor(r)
                 keys == f.keys \o ScanBatch(r)
             IN  IF iter = 0
                 THEN [pc |-> "ret",
                       fr |-> [g EXCEPT !.iter = iter, !.val = Appended(f.keys), !.err = NoErr]]
                 ELSE [pc |-> "do", fr |-> [g EXCEPT !.iter = iter, !.keys = keys]]

\* mutant: a failed round-trip returns nil keys with the error
ScanStep_DropOnError(f, r) ==
    LET g == [f EXCEPT !.sent = Append(f.sent, f.iter)]
    IN  IF r.kind \in {"eof", "err"}
        THEN [pc |-> "ret",
              fr |-> [g EXCEPT !.val = NilSlice, !.err = Errorf("error retrieving keys", ""),
                               !.broken = (r.kind = "eof")]]
        ELSE IF r.kind = "short"
        THEN [pc |-> "ret", fr |-> [g EXCEPT !.panic = TRUE]]
        ELSE LET iter == ScanCursor(r)
                 keys == f.keys \o ScanBatch(r)
             IN  IF iter = 0
                 THEN [pc |-> "ret",
                       fr |-> [g EXCEPT !.iter = iter, !.keys = keys, !.val = Appended(keys),
                                        !.err = NoErr]]
                 ELSE [pc |-> "do", fr |-> [g EXCEPT !.iter = iter, !.keys = keys]]

\* mutant: the loop gives up after two round-trips
ScanStep_Capped(f, r) ==
    LET g == [f EXCEPT !.sent = Append(f.sent, f.iter)]
    IN  IF r.kind \in {"eof", "err"}
        THEN [pc |-> "ret",
              fr |-> [g EXCEPT !.val = Appended(f.keys), !.err = Errorf("error retrieving keys", ""),
                               !.broken = (r.kind = "eof")]]
        ELSE IF r.kind = "short"
        THEN [pc |-> "ret", fr |-> [g EXCEPT !.panic = TRUE]]
        ELSE LET iter == ScanCursor(r)
                 keys == f.keys \o ScanBatch(r)
             IN  IF iter = 0 \/ Len(g.sent) >= 2
                 THEN [pc |-> "ret",
                       fr |-> [g EXCEPT !.iter = iter, !.keys = keys, !.val = Appended(keys),
                                        !.err = NoErr]]
                 ELSE [pc |-> "do", fr |-> [g EXCEPT !.iter = iter, !.keys = keys]]

\* one iteration of the loop of GetKeys
ScanStep(f, r) ==
    LET g == [f EXCEPT !.sent = Append(f.sent, f.iter)]
    IN  IF r.kind \in {"eof", "err"}
        THEN [pc |-> "ret",
              fr |-> [g EXCEPT !.val = Appended(f.keys), !.err = Errorf("error retrieving keys", ""),
                               !.broken = (r.kind = "eof")]]
        ELSE IF r.kind = "short"
        THEN [pc |-> "ret", fr |-> [g EXCEPT !.panic = TRUE]]
        ELSE LET iter == ScanCursor(r)
                 keys == f.keys \o ScanBatch(r)
             IN  IF iter = 0
                 THEN [pc |-> "ret",
                       fr |-> [g EXCEPT !.iter = iter, !.keys = keys, !.val = Appended(keys),
                                        !.err = NoErr]]
                 ELSE [pc |-> "do", fr |-> [g EXCEPT !.iter = iter, !.keys = keys]]

Scan(p) ==
    /\ status = "running"
    /\ pc[p] = "do"
    /\ fr[p].op = "GetKeys"
    /\ Len(fr[p].sent) < MaxTrips
    /\ \E r \in (IF fr[p].cerr # "" THEN {ScanFail("err")} ELSE store.scan[fr[p].iter]) :
          LET s == ScanStep(fr[p], r)
          IN  /\ pc' = [pc EXCEPT ![p] = s.pc]
              /\ fr' = [fr EXCEPT ![p] = s.fr]
    /\ UNCHANGED <<status, pools, gRedisPool, hooks, store, borrows, releases, sm>>

\* mutant: conn.Close() is not deferred but called on the success path only
Return_ErrLeak(p) ==
    /\ status = "running"
    /\ pc[p] = "ret"
    /\ IF fr[p].deferred /\ fr[p].conn # 0 /\ fr[p].err = NoErr /\ ~fr[p].panic
       THEN /\ pools' = [pools EXCEPT ![fr[p].d] = PoolPut(@, fr[p].conn, fr[p].broken)]
            /\ releases' = releases + 1
       ELSE UNCHANGED <<pools, releases>>
    /\ IF fr[p].panic
       THEN /\ status' = "panicked"
            /\ fr' = [fr EXCEPT ![p].conn = 0, ![p].deferred = FALSE]
            /\ UNCHANGED pc
       ELSE /\ pc' = [pc EXCEPT ![p] = "idle"]
            /\ fr' = [fr EXCEPT ![p] = IdleFrame]
            /\ UNCHANGED status
    /\ UNCHANGED <<gRedisPool, hooks, store, borrows, sm>>

\* the return of an operation: the deferred conn.Close() puts a borrowed
\* connection back (Close of the error connection does nothing); a panic
\* raised by the operation then ends the program
Return(p) ==
    /\ status = "running"
    /\ pc[p] = "ret"
    /\ IF fr[p].deferred /\ fr[p].conn # 0
       THEN /\ pools' = [pools EXCEPT ![fr[p].d] = PoolPut(@, fr[p].conn, fr[p].broken)]
            /\ releases' = releases + 1
       ELSE UNCHANGED <<pools, releases>>
    /\ IF fr[p].panic
       THEN /\ status' = "panicked"
            /\ fr' = [fr EXCEPT ![p].conn = 0, ![p].deferred = FALSE]
            /\ UNCHANGED pc
       ELSE /\ pc' = [pc EXCEPT ![p] = "idle"]
            /\ fr' = [fr EXCEPT ![p] = IdleFrame]
            /\ UNCHANGED status
    /\ UNCHANGED <<gRedisPool, hooks, store, borrows, sm>>

(* ---------------------------- shutdown hook ---------------------------- *)

\* the signals the hook's channel is registered for and can receive
\* (SIGKILL, also passed to signal.Notify, cannot be caught)
Signals == {"SIGINT", "SIGTERM"}

\* a signal arrives: the runtime sends it to every registered channel
\* without blocking, so it is dropped where the buffer is full
Signal(s) ==
    /\ status = "running"
    /\ hooks' = [h \in 1..Len(hooks) |->
                    IF Len(hooks[h].c) < 1 THEN [hooks[h] EXCEPT !.c = Append(@, s)]
                    ELSE hooks[h]]
    /\ UNCHANGED <<status, pools, gRedisPool, store, pc, fr, borrows, releases, sm>>

\* <-c
HookRecv(h) ==
    /\ status = "running"
    /\ hooks[h].pc = "recv"
    /\ hooks[h].c # <<>>
    /\ hooks' = [hooks EXCEPT ![h].pc = "close", ![h].c = Tail(@)]
    /\ UNCHANGED <<status, pools, gRedisPool, store, pc, fr, borrows, releases, sm>>

\* mutant: the hook flips the pool's closed flag instead of closing the pool,
\* so that a second hook opens again what the first has closed
HookClose_Toggle(h) ==
    /\ status = "running"
    /\ hooks[h].pc = "close"
    /\ pools' = [pools EXCEPT ![gRedisPool] =
                    IF @.closed THEN [@ EXCEPT !.closed = FALSE] ELSE PoolClose(@)]
    /\ hooks' = [hooks EXCEPT ![h].pc = "exit"]
    /\ UNCHANGED <<status, gRedisPool, store, pc, fr, borrows, releases, sm>>

\* gRedisPool.Close()
HookClose(h) ==
    /\ status = "running"
    /\ hooks[h].pc = "close"
    /\ pools' = [pools EXCEPT ![gRedisPool] = PoolClose(@)]
    /\ hooks' = [hooks EXCEPT ![h].pc = "exit"]
    /\ UNCHANGED <<status, gRedisPool, store, pc, fr, borrows, releases, sm>>

\* os.Exit(0)
HookExit(h) ==
    /\ status = "running"
    /\ hooks[h].pc = "exit"
    /\ status' = "exited"
    /\ hooks' = [hooks EXCEPT ![h].pc = "done"]
    /\ UNCHANGED <<pools, gRedisPool, store, pc, fr, borrows, releases, sm>>

(* --------------------------- SetupDatabase ----------------------------- *)

\* a further call of SetupDatabase: the global is overwritten with a new
\* pool (nothing closes the pool it named before) and cleanupHook makes
\* one more channel and starts one more goroutine
SetupDatabase ==
    /\ status = "running"
    /\ Len(pools) < MaxSetups
    /\ pools' = Append(pools, newPool)
    /\ gRedisPool' = Len(pools) + 1
    /\ hooks' = Append(hooks, cleanupHook)
    /\ UNCHANGED <<status, store, pc, fr, borrows, releases, sm>>

(* ---------------------------- specification ---------------------------- *)

Next ==
    \/ \E p \in Callers : Ping(p)
    \/ \E p \in Callers : Get(p)
    \/ \E p \in Callers : Set(p)
    \/ \E p \in Callers : Exists(p)
    \/ \E p \in Callers : Delete(p)
    \/ \E p \in Callers : GetKeys(p)
    \/ \E p \in Callers : HMGet(p)
    \/ \E p \in Callers : HMGetKeys(p)
    \/ \E p \in Callers : HMGetAll(p)
    \/ \E p \in Callers : HMSet(p)
    \/ \E p \in Callers : Incr(p)
    \/ \E p \in Callers : Dial(p)
    \/ \E p \in Callers : Do(p)
    \/ \E p \in Callers : Scan(p)
    \/ \E p \in Callers : Return(p)
    \/ \E s \in Signals : Signal(s)
    \/ \E h \in 1..Len(hooks) : HookRecv(h)
    \/ \E h \in 1..Len(hooks) : HookClose(h)
    \/ \E h \in 1..Len(hooks) : HookExit(h)

Spec == Init /\ [][Next]_vars

\* the hook's goroutine is scheduled as long as the process runs
HookStep == \E h \in 1..Len(hooks) : HookRecv(h) \/ HookClose(h) \/ HookExit(h)
FairSpec == Spec /\ WF_vars(HookStep)

(* ------------------- GetKeys against one given store ------------------- *)

\* one caller scans a store that answers each cursor in one fixed way; no
\* signal arrives
InitScan ==
    /\ status = "running"
    /\ pools = <<newPool>>
    /\ gRedisPool = 1
    /\ hooks = <<cleanupHook>>
    /\ store \in StorePrograms
    /\ pc = [p \in Callers |-> "idle"]
    /\ fr = [p \in Callers |-> IdleFrame]
    /\ borrows = 0
    /\ releases = 0
    /\ sm = IdleSplice

NextScan ==
    \/ GetKeys(1)
    \/ Dial(1)
    \/ Scan(1)
    \/ Return(1)

\* a call that has started goes on: the goroutine is scheduled and the
\* store answers every request
SpecScan == InitScan /\ [][NextScan]_vars /\ WF_vars(Dial(1) \/ Scan(1) \/ Return(1))

(* ------------------ repeated setup and the shutdown -------------------- *)

\* one caller pings while SetupDatabase is called again and signals arrive
NextSetup ==
    \/ SetupDatabase
    \/ Ping(1)
    \/ Dial(1)
    \/ Do(1)
    \/ Return(1)
    \/ \E s \in Signals : Signal(s)
    \/ \E h \in 1..Len(hooks) : HookRecv(h)
    \/ \E h \in 1..Len(hooks) : HookClose(h)
    \/ \E h \in 1..Len(hooks) : HookExit(h)

SpecSetup == Init /\ [][NextSetup]_vars /\ WF_vars(HookStep)

(* ------------------------ spliceMap on its own ------------------------- *)

Slices(S) == {NilSlice} \cup {Slice(s) : s \in SeqsUpTo(S, MaxLen)}
UpstreamErrs == {NoErr, RawErr(ErrIO), RawErr(ErrNil)}

InitSplice ==
    /\ status = "running"
    /\ pools = <<newPool>>
    /\ gRedisPool = 1
    /\ hooks = <<cleanupHook>>
    /\ store = FlakyStore
    /\ pc = [p \in Callers |-> "idle"]
    /\ fr = [p \in Callers |-> IdleFrame]
    /\ borrows = 0
    /\ releases = 0
    /\ \E keys \in Slices(FieldNames), values \in Slices(Values), err \in UpstreamErrs :
          sm = [IdleSplice EXCEPT !.keys = keys, !.values = values, !.err = err]

\* d.spliceMap(keys, values, err)
Splice ==
    /\ ~sm.done
    /\ sm' = [sm EXCEPT !.out = spliceMap(sm.keys, sm.values, sm.err), !.done = TRUE]
    /\ UNCHANGED <<status, pools, gRedisPool, hooks, store, pc, fr, borrows, releases>>

NextSplice == Splice

SpecSplice == InitSplice /\ [][NextSplice]_vars


(* ------------------- the value preview on its own ---------------------- *)

\* values of every length up to MaxValueLen, with dots of their own at
\* every k-th byte
ValueArgs ==
    {[i \in 1..n |-> IF i % k = 0 THEN "." ELSE "x"] : n \in 0..MaxValueLen, k \in 1..4}

InitPreview ==
    /\ status = "running"
    /\ pools = <<newPool>>
    /\ gRedisPool = 1
    /\ hooks = <<cleanupHook>>
    /\ store = FlakyStore
    /\ pc = [p \in Callers |-> "idle"]
    /\ fr = [p \in Callers |-> IdleFrame]
    /\ borrows = 0
    /\ releases = 0
    /\ \E value \in ValueArgs :
          sm = [op |-> "", value |-> value, out |-> SetErrorf(<<>>, ""), done |-> FALSE]

\* the error path of Set for a round-trip that failed
SetFails ==
    /\ ~sm.done
    /\ \E e \in {ErrIO, ErrServer} :
          sm' = [sm EXCEPT !.op = "Set", !.out = SetErrorf(sm.value, e), !.done = TRUE]
    /\ UNCHANGED <<status, pools, gRedisPool, hooks, store, pc, fr, borrows, releases>>

\* the error path of HMSet for a round-trip that failed
HMSetFails ==
    /\ ~sm.done
    /\ \E e \in {ErrIO, ErrServer} :
          sm' = [sm EXCEPT !.op = "HMSet", !.out = HMSetErrorf(sm.value, e), !.done = TRUE]
    /\ UNCHANGED <<status, pools, gRedisPool, hooks, store, pc, fr, borrows, releases>>

NextPreview ==
    \/ SetFails
    \/ HMSetFails

SpecPreview == InitPreview /\ [][NextPreview]_vars

(* ------------------------------- claims -------------------------------- *)

\* the callers that hold a borrowed connection
Holding == {p \in Callers : fr[p].conn # 0}
IdleConns(a) == {pools[a].idle[i] : i \in 1..Len(pools[a].idle)}
UsageErr == RawErr("redis: at least once field is required")

\* C1: every connection an operation borrows is put back exactly once when
\* the operation returns, on every exit path: the borrows not yet matched by
\* a release are exactly those of the operations still in flight, and when
\* no operation is in flight the borrows equal the releases.
C1_ReleasedExactlyOnce ==
    /\ borrows - releases = Cardinality(Holding)
    /\ (\A p \in Callers : pc[p] = "idle") => borrows = releases

\* an operation that was in flight when the hook closed the pool left by a
\* panic, and its connection was put back
C1_Witness ==
    /\ pools[1].closed
    /\ \E p \in Callers : pc[p] = "ret" /\ fr[p].panic /\ status = "panicked"
    /\ borrows = releases
    /\ borrows > 0

\* C2: the number of connections checked out at the same time never exceeds
\* the active limit the pool was configured with.
C2_ActiveLimit ==
    /\ Cardinality(Holding) <= MaxActive
    /\ \A a \in 1..Len(pools) : pools[a].active <= MaxActive

\* a caller is refused at the limit while another holds a connection
C2_Witness ==
    \E p, q \in Callers :
        /\ fr[p].cerr = ErrPoolExhausted
        /\ fr[q].conn # 0
        /\ Cardinality(Holding) = MaxActive

ZeroFields(f) == f.op = "HMGet" /\ Len(f.fields) = 0

\* C4: HMGet with no field returns the usage error at once: the call has no
\* connection, sends nothing, and neither the call nor its return changes
\* the pool or the counts of borrows and releases.
C4_NoFieldsNoBorrow ==
    [][\A p \in Callers :
          /\ ZeroFields(fr'[p]) =>
                /\ pc'[p] = "ret"
                /\ fr'[p].err = UsageErr /\ fr'[p].val = NilMap
                /\ fr'[p].conn = 0 /\ fr'[p].cerr = "" /\ ~fr'[p].deferred
                /\ fr'[p].sent = <<>>
          /\ (pc'[p] # pc[p] /\ (ZeroFields(fr[p]) \/ ZeroFields(fr'[p]))) =>
                /\ pools' = pools
                /\ borrows' = borrows
                /\ releases' = releases
      ]_vars

\* the usage error is returned while the pool has a connection to offer
C4_Witness ==
    \E p \in Callers :
        /\ pc[p] = "ret" /\ ZeroFields(fr[p]) /\ fr[p].err = UsageErr
        /\ pools[1].idle # <<>>

\* C5: without an upstream error spliceMap succeeds exactly when neither
\* slice is nil and both have the same length; otherwise it returns the
\* nil-result error (a slice is nil) or the length error, and no mapping.
C5_SpliceTotal ==
    (sm.done /\ sm.err = NoErr) =>
        LET shapeOk == ~sm.keys.isNil /\ ~sm.values.isNil
                          /\ Len(sm.keys.elems) = Len(sm.values.elems)
        IN  /\ (sm.out.err = NoErr) <=> shapeOk
            /\ shapeOk => ~sm.out.val.isNil
            /\ ~shapeOk =>
                  /\ sm.out.val = NilMap
                  /\ sm.out.err =
                        IF sm.keys.isNil \/ sm.values.isNil
                        THEN RawErr("splice: one or both slices are nil")
                        ELSE RawErr("splice: lengths are different")

\* a nil slice against an empty one, without upstream error
C5_Witness ==
    /\ sm.done /\ sm.err = NoErr
    /\ sm.keys.isNil /\ ~sm.values.isNil /\ sm.values.elems = <<>>
    /\ sm.out.err # NoErr

\* the reply of a deterministic store to a scan request for cursor c
TheReply(c) == CHOOSE r \in store.scan[c] : TRUE

\* the batches of the replies to the first n requests of a call, in order
RECURSIVE Collected(_, _)
Collected(sent, n) ==
    IF n = 0 THEN <<>>
    ELSE Collected(sent, n - 1) \o ScanBatch(TheReply(sent[n]))

\* C6: a GetKeys that returns without error, all replies being well formed,
\* has sent cursor 0 first and then each time the cursor of the previous
\* reply, has stopped at the first reply with cursor 0, and returns the
\* batches of all replies concatenated in the order received.
C6_ScanChain ==
    \A p \in Callers :
        LET f == fr[p]
            n == Len(f.sent)
        IN  (/\ pc[p] = "ret" /\ f.op = "GetKeys" /\ f.err = NoErr /\ ~f.panic
             /\ \A i \in 1..n : TheReply(f.sent[i]) \in WellFormedScans) =>
                /\ n >= 1
                /\ f.sent[1] = 0
                /\ \A i \in 1..(n - 1) :
                      /\ TheReply(f.sent[i]).cur # 0
                      /\ f.sent[i + 1] = TheReply(f.sent[i]).cur
                /\ TheReply(f.sent[n]).cur = 0
                /\ f.val.elems = Collected(f.sent, n)

\* a scan of several round-trips whose batches repeat a key
C6_Witness ==
    \E p \in Callers :
        /\ pc[p] = "ret" /\ fr[p].op = "GetKeys" /\ fr[p].err = NoErr
        /\ fr[p].sent = <<0, 2, 1>>
        /\ fr[p].val.elems = <<"k1", "k2", "k1", "k1", "k2">>

\* C7 as claimed: the keys returned with the error of a scan that failed
\* after at least one batch are empty.
C7_PartialDiscarded ==
    \A p \in Callers :
        (/\ pc[p] = "ret" /\ fr[p].op = "GetKeys" /\ fr[p].err # NoErr
         /\ Len(fr[p].sent) >= 2) =>
            Len(fr[p].val.elems) = 0

\* C7 amended: a GetKeys whose round-trip fails returns the error together
\* with the keys of all batches received before the failure.
C7_PartialReturned ==
    \A p \in Callers :
        (pc[p] = "ret" /\ fr[p].op = "GetKeys" /\ fr[p].err # NoErr) =>
            /\ fr[p].err = Errorf("error retrieving keys", "")
            /\ fr[p].val.elems = Collected(fr[p].sent, Len(fr[p].sent) - 1)

\* the third round-trip fails after two batches with keys
C7_Witness ==
    \E p \in Callers :
        /\ pc[p] = "ret" /\ fr[p].op = "GetKeys" /\ fr[p].err # NoErr
        /\ Len(fr[p].sent) = 3
        /\ Len(fr[p].val.elems) >= 2

\* a store whose cursor sequence, followed from 0, reaches 0 again
RECURSIVE ReachesZero(_, _)
ReachesZero(c, fuel) ==
    /\ fuel > 0
    /\ TheReply(c) \in WellFormedScans
    /\ (TheReply(c).cur = 0 \/ ReachesZero(TheReply(c).cur, fuel - 1))
WellBehaved == ReachesZero(0, MaxTrips)
\* a store that never answers with cursor 0 and never fails
NeverZero ==
    \A c \in Cursors : TheReply(c).kind = "ok" /\ ScanCursor(TheReply(c)) # 0
Scanning(p) == pc[p] = "do" /\ fr[p].op = "GetKeys"

\* C8: against a store whose cursor sequence reaches 0, a GetKeys that has
\* started its scan returns and has put its connection back; against a store
\* that never answers with cursor 0 and never fails, GetKeys never returns,
\* however many round-trips it has made.
C8_ScanTermination ==
    /\ (WellBehaved /\ Scanning(1)) ~> (pc[1] = "idle" /\ Holding = {})
    /\ [](NeverZero => \A p \in Callers : ~(pc[p] = "ret" /\ fr[p].op = "GetKeys"))

\* the scan is still going on after as many round-trips as the model follows
C8_Witness ==
    /\ NeverZero
    /\ Scanning(1)
    /\ Len(fr[1].sent) = MaxTrips

\* a signal is in the hook's channel, or the hook has taken it
SignalReceived == \E h \in 1..Len(hooks) : hooks[h].c # <<>> \/ hooks[h].pc # "recv"

\* C9 as claimed: the process exits with status 0 only after the pool is
\* closed, and once a signal is received the process exits with status 0.
C9_HookExits ==
    /\ [](status = "exited" => pools[gRedisPool].closed)
    /\ SignalReceived ~> (status = "exited")

\* C10: a borrow from a closed pool fails: the operation gets the error
\* connection, nothing is dialed and the pool is left as it is; and every
\* operation started on a closed pool returns an error, except HMGetKeys and
\* HMGetAll, which return a nil result.
C10_ClosedPoolFails ==
    /\ [][\A p \in Callers :
             (pc[p] = "idle" /\ pc'[p] # "idle" /\ pools[gRedisPool].closed) =>
                 \/ /\ pc'[p] = "ret"
                    /\ fr'[p].err # NoErr
                 \/ /\ pc'[p] = "do"
                    /\ fr'[p].conn = 0
                    /\ fr'[p].cerr = ErrPoolClosed
                    /\ pools' = pools
                    /\ borrows' = borrows
         ]_vars
    /\ [](\A p \in Callers :
             (pc[p] = "ret" /\ fr[p].cerr = ErrPoolClosed) =>
                 IF fr[p].op \in {"HMGetKeys", "HMGetAll"}
                 THEN fr[p].val.isNil /\ fr[p].err = NoErr
                 ELSE fr[p].err # NoErr)

\* a Ping started after the close returns the pool's error
C10_Witness ==
    \E p \in Callers :
        /\ pc[p] = "ret" /\ fr[p].op = "Ping"
        /\ fr[p].err = Errorf("cannot 'PING' db", ErrPoolClosed)

\* the operations that count against pool a: they hold one of its
\* connections or are dialing one
InFlight(a) == {p \in Callers : fr[p].d = a /\ (fr[p].conn # 0 \/ pc[p] = "dial")}

C12_DialFailureReturned ==
    [][\A p \in Callers :
          (pc[p] = "dial" /\ fr'[p] # fr[p] /\ fr'[p].conn = 0) =>
              /\ status' = "running"
              /\ pc'[p] = "ret"
              /\ fr'[p].err # NoErr
      ]_vars

\* C13: an operation whose round-trip failed in the transport returns a
\* non-nil error, except HMGetKeys and HMGetAll, which return a nil (empty)
\* result and no error.
C13_TransportFailureSurfaced ==
    \A p \in Callers :
        (pc[p] = "ret" /\ fr[p].broken) =>
            IF fr[p].op \in {"HMGetKeys", "HMGetAll"}
            THEN fr[p].err = NoErr /\ fr[p].val.isNil
            ELSE fr[p].err # NoErr

\* a Delete whose round-trip met the end of the stream returns that error
C13_Witness ==
    \E p \in Callers :
        /\ pc[p] = "ret" /\ fr[p].op = "Delete" /\ fr[p].broken
        /\ fr[p].err = RawErr(ErrIO)

\* C14 as claimed: every error an operation returns after a round-trip has
\* the context added by the operation and carries the underlying cause.
C14_ErrorsWrapped ==
    \A p \in Callers :
        (pc[p] = "ret" /\ fr[p].err # NoErr /\ ~ZeroFields(fr[p])) =>
            /\ fr[p].err.op # ""
            /\ fr[p].err.cause # ""

\* C15: in the error of a failed Set or HMSet a value longer than 15 bytes
\* appears as its first 12 bytes followed by "...", a value of 15 bytes or
\* fewer appears in full, and the preview is never longer than 15 bytes.
C15_PreviewBounded ==
    (sm.done /\ sm.op \in {"Set", "HMSet"}) =>
        /\ Len(sm.value) > 15 => sm.out.v = SubSeq(sm.value, 1, 12) \o <<".", ".", ".">>
        /\ Len(sm.value) <= 15 => sm.out.v = sm.value
        /\ Len(sm.out.v) <= 15

\* a failed HMSet of a value of 16 bytes that has dots of its own
C15_Witness ==
    /\ sm.done /\ sm.op = "HMSet"
    /\ Len(sm.value) = 16 /\ sm.value[12] = "."
    /\ Len(sm.out.v) = 15

\* C16: when the upstream error passed to spliceMap is non-nil, spliceMap
\* returns exactly that error, whatever the shape of keys and values (nil,
\* different lengths, equal lengths).
C16_UpstreamPropagated ==
    (sm.done /\ sm.err # NoErr) => sm.out.err = sm.err

\* an upstream error met with slices of different lengths
C16_Witness ==
    /\ sm.done /\ sm.err = RawErr(ErrIO)
    /\ ~sm.keys.isNil /\ ~sm.values.isNil
    /\ Len(sm.keys.elems) = 2 /\ Len(sm.values.elems) = 1
    /\ sm.out.err = RawErr(ErrIO)

\* the highest position at which the field x occurs in keys
LastPos(keys, x) ==
    CHOOSE i \in 1..Len(keys) : keys[i] = x /\ \A j \in 1..Len(keys) : keys[j] = x => j <= i

\* C17: a spliceMap that succeeds returns the mapping whose keys are exactly
\* the field names and in which each field has the value at the highest
\* position where the field occurs: a later duplicate overwrites an earlier
\* one and is not an error.
C17_PairsByPosition ==
    (sm.done /\ sm.out.err = NoErr) =>
        LET keys == sm.keys.elems
            values == sm.values.elems
        IN  /\ ~sm.out.val.isNil
            /\ DOMAIN sm.out.val.m = {keys[i] : i \in 1..Len(keys)}
            /\ \A x \in DOMAIN sm.out.val.m : sm.out.val.m[x] = values[LastPos(keys, x)]

\* the same field twice, with two different values
C17_Witness ==
    /\ sm.done /\ sm.out.err = NoErr
    /\ sm.keys.elems = <<"a", "a">> /\ sm.values.elems = <<"1", "2">>
    /\ sm.out.val.m = [x \in {"a"} |-> "2"]

\* C18 as claimed: spliceMap never returns a mapping together with an
\* error: a non-nil error comes with a nil mapping and a non-nil mapping
\* with a nil error.
C18_MapOrError ==
    sm.done =>
        /\ sm.out.err # NoErr => sm.out.val.isNil
        /\ ~sm.out.val.isNil => sm.out.err = NoErr

\* C19 as claimed: a GetKeys that returns without error has ended at a reply
\* whose cursor was 0, and none of the replies it received had a cursor or
\* a key batch that could not be decoded.
C19_DecodeErrorsSurface ==
    \A p \in Callers :
        LET f == fr[p]
            n == Len(f.sent)
        IN  (pc[p] = "ret" /\ f.op = "GetKeys" /\ f.err = NoErr /\ ~f.panic) =>
                /\ n >= 1
                /\ TheReply(f.sent[n]).cur = 0
                /\ \A i \in 1..n : TheReply(f.sent[i]).cur >= 0 /\ TheReply(f.sent[i]).batch.ok

\* C20 as claimed: when the process has exited through the shutdown hook,
\* every pool that SetupDatabase created is closed, also after several
\* calls of SetupDatabase.
C20_EveryPoolClosed ==
    status = "exited" => \A a \in 1..Len(pools) : pools[a].closed

====
